---- MODULE Spec2Model ----
(***************************************************************************)
(* The safe wrapper layer of ta-lib-rs over the TA-Lib C library.          *)
(*                                                                         *)
(* Every wrapper is one action: it checks its assertions, allocates the    *)
(* output buffer(s) and the two MaybeUninit cells, calls the C function    *)
(* with the range 0 .. len-1, and maps the status code to a Result.        *)
(* A slice is modelled by its length, an output buffer by its capacity,    *)
(* its length and one tag per slot ("uninit" or "lib"), the C library by   *)
(* the set of outcomes it can produce for the arguments it receives.       *)
(*                                                                         *)
(* Machine integers keep their width, scaled down so that TLC can         *)
(* enumerate them: the C int has IntBits bits (32 in the program) and      *)
(* usize has UsizeBits bits (64 in the program); usize stays wider than    *)
(* the C int, as on the 64-bit targets.                                    *)
(***************************************************************************)
EXTENDS Integers, Sequences, FiniteSets, TLC

VARIABLES
    call,       \* the last wrapper call: the function and its arguments
    ta_call,    \* the arguments handed to the C function, or NotCalled
    ta_out,     \* what the C function did: status code, cells, count
    out_begin,  \* the MaybeUninit<i32> cell out_begin after the call
    out_size,   \* the MaybeUninit<i32> cell out_size after the call
    out,        \* the output buffers (one, or three for bollinger_bands)
    reads,      \* the cells the wrapper read with assume_init
    result,     \* what the wrapper returned: Ok, Err, or a panic
    prev        \* an earlier call the observer remembers, to compare calls

vars == <<call, ta_call, ta_out, out_begin, out_size, out, reads, result, prev>>

(***************************************************************************)
(* Integer widths and casts                                                *)
(***************************************************************************)
IntBits == 4

UsizeBits == IntBits + 2

IntMin == -(2^(IntBits - 1))

IntMax == 2^(IntBits - 1) - 1

UsizeMax == 2^UsizeBits - 1

\* `x as _` from usize to the C int: keeps the low IntBits bits, two's complement
AsCInt(n) ==
    LET m == n % (2^IntBits)
    IN  IF m > IntMax THEN m - 2^IntBits ELSE m

\* AsUsize, had the count been cast through a type narrower than the C int
AsUsizeNarrow(i) == i % (2^(IntBits - 1))

\* `x as _` from i32 to usize: sign-extends, then wraps to the usize width
AsUsize(i) == i % (2^UsizeBits)

\* usize subtraction as the release build computes it
UsizeSub(a, b) == (a - b) % (2^UsizeBits)

(***************************************************************************)
(* Option<T>                                                               *)
(***************************************************************************)
None == [some |-> FALSE]

Some(x) == [some |-> TRUE, v |-> x]

(***************************************************************************)
(* The raw bindings the wrapper uses                                       *)
(***************************************************************************)
\* TA_RetCode: the status codes of the C library
RetCode ==
    [SUCCESS |-> 0, BAD_PARAM |-> 2, ALLOC_ERR |-> 3,
     OUT_OF_RANGE_START_INDEX |-> 12, OUT_OF_RANGE_END_INDEX |-> 13]

RetCodes == {RetCode[n] : n \in DOMAIN RetCode}

\* the sentinel for "use the indicator's default period"
TA_INTEGER_DEFAULT == IntMin

\* the sentinel for "use the indicator's default real parameter"
TA_REAL_DEFAULT == "-4e37"

\* TA_MAType: the C enum codes of the moving averages
MAType ==
    [MAType_SMA |-> 0, MAType_EMA |-> 1, MAType_WMA |-> 2, MAType_DEMA |-> 3,
     MAType_TEMA |-> 4, MAType_TRIMA |-> 5, MAType_KAMA |-> 6, MAType_MAMA |-> 7,
     MAType_T3 |-> 8]

\* #[derive(Debug)] of a status code prints the name of its variant
DebugFmt(ret_code) == CHOOSE n \in DOMAIN RetCode : RetCode[n] = ret_code

NotCalled == [name |-> "none"]

Uninit == [init |-> FALSE, v |-> 0]

\* no C call was made
NoOutcome == [retCode |-> -1, wrote |-> FALSE, outBegIdx |-> 0, outNBElement |-> 0]

Written(x) == [init |-> TRUE, v |-> x]

(***************************************************************************)
(* The C library, as far as the wrapper can observe it.                    *)
(* Every TA function first checks the range (a negative start index, or an *)
(* end index that is negative or below the start index, is an error that   *)
(* writes nothing), may fail on its other parameters or on an allocation,  *)
(* and on success stores the offset of the first output in *outBegIdx and  *)
(* the number of outputs in *outNBElement, with                            *)
(*      0 <= outBegIdx,  0 <= outNBElement,                                *)
(*      outBegIdx + outNBElement <= endIdx + 1  when outNBElement > 0,     *)
(* after writing outNBElement values to each output array.                 *)
(***************************************************************************)
Failure(code, wrote) ==
    [retCode |-> code, wrote |-> wrote, outBegIdx |-> 0, outNBElement |-> 0]

Success(b, n) ==
    [retCode |-> RetCode.SUCCESS, wrote |-> TRUE, outBegIdx |-> b, outNBElement |-> n]

\* the offsets the model lets the library report for the range startIdx..endIdx
BeginIdxs(startIdx, endIdx) == {startIdx, endIdx}

LibOutcomes(startIdx, endIdx) ==
    IF startIdx < 0 THEN {Failure(RetCode.OUT_OF_RANGE_START_INDEX, FALSE)}
    ELSE IF endIdx < 0 \/ endIdx < startIdx
    THEN {Failure(RetCode.OUT_OF_RANGE_END_INDEX, FALSE)}
    ELSE {Failure(RetCode.BAD_PARAM, FALSE), Failure(RetCode.ALLOC_ERR, TRUE)}
         \cup {Success(0, 0)}
         \cup {Success(b, endIdx - b + 1) : b \in BeginIdxs(startIdx, endIdx)}

\* the library stores n values at the start of an output array
LibWrite(buf, n) ==
    [buf EXCEPT !.data = [i \in 1..Len(buf.data) |-> IF i <= n THEN "lib" ELSE buf.data[i]]]

(***************************************************************************)
(* Vec<f64>                                                                *)
(***************************************************************************)
\* WithCapacity, had the buffer been sized by the end index instead of the length
WithCapacityEndIdx(n) ==
    [cap |-> n - 1, len |-> 0, data |-> [i \in 1..(n - 1) |-> "uninit"]]

\* WithCapacity, had the wrapper kept its buffer between calls and reused it
\* whenever it is large enough
WithCapacityReused(n) ==
    IF out # <<>> /\ out[1].cap >= n
    THEN [cap |-> out[1].cap, len |-> 0, data |-> [i \in 1..out[1].cap |-> "uninit"]]
    ELSE [cap |-> n, len |-> 0, data |-> [i \in 1..n |-> "uninit"]]

\* Vec::with_capacity(n): room for n values, length 0, nothing initialized
WithCapacity(n) == [cap |-> n, len |-> 0, data |-> [i \in 1..n |-> "uninit"]]

\* SetLen, had the wrapper exposed the whole allocation
SetLenCapacity(buf, n) == [buf EXCEPT !.len = buf.cap]

\* Vec::set_len(n): no check, no initialization
SetLen(buf, n) == [buf EXCEPT !.len = n]

\* the elements a Vec exposes: its first len slots, whatever they hold
Values(buf) ==
    [i \in 1..buf.len |-> IF i <= buf.cap THEN buf.data[i] ELSE "out_of_bounds"]

\* MaybeUninit::assume_init: the stored value; of an uninitialized cell, any value
AssumeInit(cell) == IF cell.init THEN {cell.v} ELSE {0, 1, IntMax}

(***************************************************************************)
(* The pieces every wrapper is made of                                     *)
(***************************************************************************)
\* if let Some(period) = period { period as _ } else { ta::TA_INTEGER_DEFAULT }
PeriodArg(period) == IF period.some THEN AsCInt(period.v) ELSE TA_INTEGER_DEFAULT

\* bollinger_bands spells the default out: i32::MIN
BBandsPeriodArg(period) == IF period.some THEN AsCInt(period.v) ELSE IntMin

\* Option<f64>::unwrap_or(ta::REAL_DEFAULT)
RealArg(x) == IF x.some THEN x.v ELSE TA_REAL_DEFAULT

\* the end index of the requested range: (len - 1) as _
EndIdx(len) == AsCInt(UsizeSub(len, 1))

\* IsSuccess, had the match treated only BAD_PARAM as an error
IsSuccessUnlessBadParam(ret_code) == ret_code # RetCode.BAD_PARAM

\* the arm of `match ret_code` that is taken
IsSuccess(ret_code) == ret_code = RetCode.SUCCESS

\* format!("Could not compute <what>; error: {:?}", ret_code), word by word
ErrMessage(what, ret_code) ==
    <<"Could", "not", "compute", what, "error", DebugFmt(ret_code)>>

\* a failed assert!: the wrapper unwinds before it allocates or calls anything
Panics(c) ==
    /\ call' = c
    /\ ta_call' = NotCalled
    /\ ta_out' = NoOutcome
    /\ out_begin' = Uninit
    /\ out_size' = Uninit
    /\ out' = <<>>
    /\ reads' = {}
    /\ result' = [kind |-> "Panic"]

\* the unsafe block: the C call on fresh cells and buffers, then `match ret_code`
CallLibrary(c, args, bufs, what) ==
    \E o \in LibOutcomes(args.startIdx, args.endIdx) :
        LET begin_cell == IF o.wrote THEN Written(o.outBegIdx) ELSE Uninit
            size_cell  == IF o.wrote THEN Written(o.outNBElement) ELSE Uninit
            filled     == [i \in 1..Len(bufs) |-> LibWrite(bufs[i], o.outNBElement)]
        IN  /\ call' = c
            /\ ta_call' = args
            /\ ta_out' = o
            /\ out_begin' = begin_cell
            /\ out_size' = size_cell
            /\ IF IsSuccess(o.retCode)
               THEN \E n \in AssumeInit(size_cell), b \in AssumeInit(begin_cell) :
                        /\ out' = [i \in 1..Len(bufs) |-> SetLen(filled[i], AsUsize(n))]
                        /\ reads' = {"out_size", "out_begin"}
                        /\ result' = [kind   |-> "Ok",
                                      values |-> [i \in 1..Len(bufs) |->
                                                     Values(SetLen(filled[i], AsUsize(n)))],
                                      begin  |-> AsUsize(b)]
               ELSE /\ out' = filled
                    /\ reads' = {}
                    /\ result' = [kind |-> "Err", msg |-> ErrMessage(what, o.retCode)]

(***************************************************************************)
(* The inputs the model draws the calls from                               *)
(***************************************************************************)
\* lengths of the primary input: empty, one element, the largest whose end
\* index fits the C int, the first whose end index does not, and one beyond
\* 2^IntBits
PrimaryLens == {0, 1, IntMax + 1, IntMax + 2, 2^IntBits + 2}

\* the length the other arguments are varied at
FullLen == IntMax + 1

\* lengths of a secondary input (high, low, volume) next to a primary of length n
SecondaryLens(n) == {m \in {n - 1, n, n + 1} : m >= 0}

\* lengths of high and low next to a close of length n: one of them differs
SecondaryPairs(n) ==
    {<<n, n>>} \cup {<<m, n>> : m \in SecondaryLens(n)} \cup {<<n, m>> : m \in SecondaryLens(n)}

\* None, an ordinary period, the first that does not fit the C int, one beyond
\* 2^IntBits, and the largest usize
Periods == {None, Some(2), Some(IntMax + 1), Some(2^IntBits + 2), Some(UsizeMax)}

Deviations == {None, Some("2.0")}

(***************************************************************************)
(* MovingAverageType and its way to the C enum                             *)
(***************************************************************************)
MovingAverageTypes ==
    {"SimpleMovingAverage", "ExponentialMovingAverage", "WeightedMovingAverage",
     "DoubleExponentialMovingAverage", "TripleExponentialMovingAverage",
     "TriangularMovingAverage", "KaufmanAdaptiveMovingAverage",
     "MesaAdaptiveMovingAverage", "TripleGeneralizedDoubleExponentialMovingAverage"}

\* Discriminant, had two variants been declared with each other's code
DiscriminantSwapped(variant) ==
    CASE variant = "SimpleMovingAverage"            -> MAType.MAType_SMA
      [] variant = "ExponentialMovingAverage"       -> MAType.MAType_EMA
      [] variant = "WeightedMovingAverage"          -> MAType.MAType_WMA
      [] variant = "DoubleExponentialMovingAverage" -> MAType.MAType_TEMA
      [] variant = "TripleExponentialMovingAverage" -> MAType.MAType_DEMA
      [] variant = "TriangularMovingAverage"        -> MAType.MAType_TRIMA
      [] variant = "KaufmanAdaptiveMovingAverage"   -> MAType.MAType_KAMA
      [] variant = "MesaAdaptiveMovingAverage"      -> MAType.MAType_MAMA
      [] variant = "TripleGeneralizedDoubleExponentialMovingAverage" -> MAType.MAType_T3

\* the discriminant each variant is declared with
Discriminant(variant) ==
    CASE variant = "SimpleMovingAverage"            -> MAType.MAType_SMA
      [] variant = "ExponentialMovingAverage"       -> MAType.MAType_EMA
      [] variant = "WeightedMovingAverage"          -> MAType.MAType_WMA
      [] variant = "DoubleExponentialMovingAverage" -> MAType.MAType_DEMA
      [] variant = "TripleExponentialMovingAverage" -> MAType.MAType_TEMA
      [] variant = "TriangularMovingAverage"        -> MAType.MAType_TRIMA
      [] variant = "KaufmanAdaptiveMovingAverage"   -> MAType.MAType_KAMA
      [] variant = "MesaAdaptiveMovingAverage"      -> MAType.MAType_MAMA
      [] variant = "TripleGeneralizedDoubleExponentialMovingAverage" -> MAType.MAType_T3

\* transmute to ta::MAType: the variant of the C enum that has these bits
Transmute(bits) == CHOOSE m \in DOMAIN MAType : MAType[m] = bits

\* transmute(moving_average_type.unwrap_or(MovingAverageType::ExponentialMovingAverage))
MATypeArg(moving_average_type) ==
    Transmute(Discriminant(IF moving_average_type.some
                           THEN moving_average_type.v
                           ELSE "ExponentialMovingAverage"))

MovingAverageArgs == {None} \cup {Some(m) : m \in MovingAverageTypes}

(***************************************************************************)
(* The wrappers                                                            *)
(***************************************************************************)
\* the wrappers define_high_low_close_period_fn! defines, and their C functions
HighLowClosePeriodFns ==
    [average_directional_movement_index |-> "ADX",
     average_true_range                 |-> "ATR",
     normalized_average_true_range      |-> "NATR",
     negative_directional_indicator     |-> "MINUS_DI",
     positive_directional_indicator     |-> "PLUS_DI"]

\* the wrapper define_high_low_close_fn! defines
HighLowCloseFns == [true_range |-> "TRANGE"]

\* the wrappers define_values_period_fn! defines
ValuesPeriodFns ==
    [exponential_moving_average |-> "EMA", simple_moving_average |-> "SMA"]

define_high_low_close_period_fn(fn_name, high, low, close, period) ==
    LET c == [fn |-> fn_name, high |-> high, low |-> low, close |-> close,
              period |-> period]
    IN  IF ~(close # 0 /\ close <= high /\ close <= low)
        THEN Panics(c)
        ELSE CallLibrary(c,
                 [name            |-> HighLowClosePeriodFns[fn_name],
                  startIdx        |-> 0,
                  endIdx          |-> EndIdx(close),
                  inputs          |-> <<high, low, close>>,
                  optInTimePeriod |-> PeriodArg(period),
                  outCap          |-> <<WithCapacity(close).cap>>],
                 <<WithCapacity(close)>>, "function")

define_high_low_close_fn(fn_name, high, low, close) ==
    LET c == [fn |-> fn_name, high |-> high, low |-> low, close |-> close]
    IN  IF ~(close # 0 /\ close <= high /\ close <= low)
        THEN Panics(c)
        ELSE CallLibrary(c,
                 [name     |-> HighLowCloseFns[fn_name],
                  startIdx |-> 0,
                  endIdx   |-> EndIdx(close),
                  inputs   |-> <<high, low, close>>,
                  outCap   |-> <<WithCapacity(close).cap>>],
                 <<WithCapacity(close)>>, "function")

define_values_period_fn(fn_name, input, period) ==
    LET c == [fn |-> fn_name, input |-> input, period |-> period]
    IN  IF ~(input # 0)
        THEN Panics(c)
        ELSE CallLibrary(c,
                 [name            |-> ValuesPeriodFns[fn_name],
                  startIdx        |-> 0,
                  endIdx          |-> EndIdx(input),
                  inputs          |-> <<input>>,
                  optInTimePeriod |-> PeriodArg(period),
                  outCap          |-> <<WithCapacity(input).cap>>],
                 <<WithCapacity(input)>>, "function")

bollinger_bands(input, period, num_std_deviations_up, num_std_deviations_down, moving_average_type) ==
    LET c == [fn |-> "bollinger_bands", input |-> input, period |-> period,
              num_std_deviations_up   |-> num_std_deviations_up,
              num_std_deviations_down |-> num_std_deviations_down,
              moving_average_type     |-> moving_average_type]
    IN  IF ~(input # 0)
        THEN Panics(c)
        ELSE CallLibrary(c,
                 [name            |-> "BBANDS",
                  startIdx        |-> 0,
                  endIdx          |-> EndIdx(input),
                  inputs          |-> <<input>>,
                  optInTimePeriod |-> BBandsPeriodArg(period),
                  optInNbDevUp    |-> RealArg(num_std_deviations_up),
                  optInNbDevDn    |-> RealArg(num_std_deviations_down),
                  optInMAType     |-> MATypeArg(moving_average_type),
                  outCap          |-> <<WithCapacity(input).cap, WithCapacity(input).cap,
                                        WithCapacity(input).cap>>],
                 <<WithCapacity(input), WithCapacity(input), WithCapacity(input)>>,
                 "OBV")

on_balance_volume(close, volume) ==
    LET c == [fn |-> "on_balance_volume", close |-> close, volume |-> volume]
    IN  IF ~(close # 0 /\ close <= volume)
        THEN Panics(c)
        ELSE CallLibrary(c,
                 [name     |-> "OBV",
                  startIdx |-> 0,
                  endIdx   |-> EndIdx(close),
                  inputs   |-> <<close, volume>>,
                  outCap   |-> <<WithCapacity(close).cap>>],
                 <<WithCapacity(close)>>, "OBV")

(***************************************************************************)
(* The state machine: any wrapper may be called next, with any arguments   *)
(***************************************************************************)
(***************************************************************************)
(* The raw bindings crate: build.rs runs the bindings generator over the   *)
(* C headers with its renaming callbacks, and the wrapper crate refers to  *)
(* the generated items by path.  An identifier is the sequence of its      *)
(* parts between underscores: TA_RetCode is <<"TA", "RetCode">>.  A path   *)
(* below `ta::` is the sequence of its segments.                           *)
(***************************************************************************)
VARIABLES
    bindgen_item,  \* the C declaration the generator visited last
    bindgen_out,   \* the path it emitted for that declaration, or Skipped
    reference,     \* the reference of the wrapper crate compiled last
    resolved       \* that reference names an item of the generated bindings

bvars == <<bindgen_item, bindgen_out, reference, resolved>>

\* str::starts_with("TA_")
StartsWithTA(name) == Len(name) > 1 /\ Head(name) = "TA"

\* str::trim_start_matches("TA_"): removes the prefix as often as it occurs
RECURSIVE TrimStartMatchesTA(_)
TrimStartMatchesTA(name) ==
    IF StartsWithTA(name) THEN TrimStartMatchesTA(Tail(name)) ELSE name

\* CleanTaNamingCallbacks::item_name
item_name(original_item_name) ==
    IF StartsWithTA(original_item_name)
    THEN Some(TrimStartMatchesTA(original_item_name))
    ELSE None

\* CleanTaNamingCallbacks::enum_variant_name
enum_variant_name(enum_name, original_variant_name) ==
    IF enum_name.some
    THEN Some(TrimStartMatchesTA(original_variant_name))
    ELSE None

\* a callback that returns None leaves the generator's own name in place
UnwrapOr(renamed, own) == IF renamed.some THEN renamed.v ELSE own

\* allowlist_function("TA_.*"), allowlist_type("TA_.*"), allowlist_var("TA_.*")
Allowlisted(name) == StartsWithTA(name)

\* rustified_enum("TA_.*")
Rustified(enum) == StartsWithTA(enum)

\* prepend_enum_name(false)
PrependEnumName == FALSE

Skipped == <<>>

\* the path under `ta::` the generator emits for a declaration of the headers
RustPath(decl) ==
    IF decl.kind = "variant"
    THEN IF ~Allowlisted(decl.enum) THEN Skipped
         ELSE IF Rustified(decl.enum)
         THEN <<UnwrapOr(item_name(decl.enum), decl.enum),
                UnwrapOr(enum_variant_name(Some(decl.enum), decl.name), decl.name)>>
         ELSE <<UnwrapOr(enum_variant_name(Some(decl.enum), decl.name),
                         IF PrependEnumName THEN decl.enum \o decl.name ELSE decl.name)>>
    ELSE IF ~Allowlisted(decl.name) THEN Skipped
         ELSE <<UnwrapOr(item_name(decl.name), decl.name)>>

Item(kind, name) == [kind |-> kind, name |-> name, enum |-> <<>>]

Variant(enum, name) == [kind |-> "variant", name |-> name, enum |-> enum]

\* the declarations of the TA-Lib headers that the wrapper needs, and one of
\* the C library that the allowlist leaves out
HeaderFunctions ==
    {Item("function", <<"TA", "ADX">>), Item("function", <<"TA", "ATR">>),
     Item("function", <<"TA", "NATR">>), Item("function", <<"TA", "MINUS", "DI">>),
     Item("function", <<"TA", "PLUS", "DI">>), Item("function", <<"TA", "TRANGE">>),
     Item("function", <<"TA", "EMA">>), Item("function", <<"TA", "SMA">>),
     Item("function", <<"TA", "BBANDS">>), Item("function", <<"TA", "OBV">>)}

HeaderVars ==
    {Item("var", <<"TA", "INTEGER", "DEFAULT">>), Item("var", <<"TA", "REAL", "DEFAULT">>),
     Item("var", <<"INT", "MIN">>)}

HeaderTypes == {Item("type", <<"TA", "RetCode">>), Item("type", <<"TA", "MAType">>)}

HeaderVariants ==
    {Variant(<<"TA", "RetCode">>, <<"TA", "SUCCESS">>),
     Variant(<<"TA", "RetCode">>, <<"TA", "BAD", "PARAM">>),
     Variant(<<"TA", "RetCode">>, <<"TA", "ALLOC", "ERR">>),
     Variant(<<"TA", "RetCode">>, <<"TA", "OUT", "OF", "RANGE", "START", "INDEX">>),
     Variant(<<"TA", "RetCode">>, <<"TA", "OUT", "OF", "RANGE", "END", "INDEX">>),
     Variant(<<"TA", "MAType">>, <<"TA", "MAType", "SMA">>),
     Variant(<<"TA", "MAType">>, <<"TA", "MAType", "EMA">>),
     Variant(<<"TA", "MAType">>, <<"TA", "MAType", "WMA">>),
     Variant(<<"TA", "MAType">>, <<"TA", "MAType", "DEMA">>),
     Variant(<<"TA", "MAType">>, <<"TA", "MAType", "TEMA">>),
     Variant(<<"TA", "MAType">>, <<"TA", "MAType", "TRIMA">>),
     Variant(<<"TA", "MAType">>, <<"TA", "MAType", "KAMA">>),
     Variant(<<"TA", "MAType">>, <<"TA", "MAType", "MAMA">>),
     Variant(<<"TA", "MAType">>, <<"TA", "MAType", "T3">>)}

Header == HeaderFunctions \cup HeaderVars \cup HeaderTypes \cup HeaderVariants

\* bindings.rs: everything the generator emits
Bindings == {RustPath(decl) : decl \in Header} \ {Skipped}

Ref(file, line, path) == [file |-> file, line |-> line, path |-> path]

\* the paths below `ta::` that the three macros refer to, with the C function
\* names the invocations in lib.rs pass for $ta_fn_name
MacroReferences ==
    {Ref("macros.rs", 19, <<<<"ADX">>>>), Ref("macros.rs", 19, <<<<"ATR">>>>),
     Ref("macros.rs", 19, <<<<"NATR">>>>), Ref("macros.rs", 19, <<<<"MINUS", "DI">>>>),
     Ref("macros.rs", 19, <<<<"PLUS", "DI">>>>),
     Ref("macros.rs", 28, <<<<"TA", "INTEGER", "DEFAULT">>>>),
     Ref("macros.rs", 36, <<<<"TA", "RetCode", "TA", "SUCCESS">>>>),
     Ref("macros.rs", 95, <<<<"TRANGE">>>>),
     Ref("macros.rs", 107, <<<<"TA", "RetCode", "TA", "SUCCESS">>>>),
     Ref("macros.rs", 163, <<<<"EMA">>>>), Ref("macros.rs", 163, <<<<"SMA">>>>),
     Ref("macros.rs", 170, <<<<"TA", "INTEGER", "DEFAULT">>>>),
     Ref("macros.rs", 178, <<<<"TA", "RetCode", "TA", "SUCCESS">>>>)}

\* the paths below `ta::` that lib.rs refers to
LibReferences ==
    {Ref("lib.rs", 124, <<<<"MAType">>, <<"MAType", "SMA">>>>),
     Ref("lib.rs", 125, <<<<"MAType">>, <<"MAType", "EMA">>>>),
     Ref("lib.rs", 126, <<<<"MAType">>, <<"MAType", "WMA">>>>),
     Ref("lib.rs", 127, <<<<"MAType">>, <<"MAType", "DEMA">>>>),
     Ref("lib.rs", 128, <<<<"MAType">>, <<"MAType", "TEMA">>>>),
     Ref("lib.rs", 129, <<<<"MAType">>, <<"MAType", "TRIMA">>>>),
     Ref("lib.rs", 130, <<<<"MAType">>, <<"MAType", "KAMA">>>>),
     Ref("lib.rs", 131, <<<<"MAType">>, <<"MAType", "MAMA">>>>),
     Ref("lib.rs", 132, <<<<"MAType">>, <<"MAType", "T3">>>>),
     Ref("lib.rs", 155, <<<<"BBANDS">>>>),
     Ref("lib.rs", 165, <<<<"REAL", "DEFAULT">>>>),
     Ref("lib.rs", 166, <<<<"REAL", "DEFAULT">>>>),
     Ref("lib.rs", 176, <<<<"RetCode">>, <<"SUCCESS">>>>),
     Ref("lib.rs", 220, <<<<"OBV">>>>),
     Ref("lib.rs", 231, <<<<"RetCode">>, <<"SUCCESS">>>>)}

NoItem == Item("none", <<>>)

NoReference == Ref("none", 0, <<>>)

\* the observer remembers no call yet
NoPrev ==
    [call |-> [fn |-> "none"], ta_call |-> NotCalled, ta_out |-> NoOutcome,
     result |-> [kind |-> "None"], gap |-> FALSE]

Init ==
    /\ call = [fn |-> "none"]
    /\ ta_call = NotCalled
    /\ ta_out = NoOutcome
    /\ out_begin = Uninit
    /\ out_size = Uninit
    /\ out = <<>>
    /\ reads = {}
    /\ result = [kind |-> "None"]
    /\ prev = NoPrev
    /\ bindgen_item = NoItem
    /\ bindgen_out = Skipped
    /\ reference = NoReference
    /\ resolved = TRUE

CallHighLowClosePeriod ==
    \E fn_name \in DOMAIN HighLowClosePeriodFns :
        \/ \E close \in PrimaryLens :
               \E hl \in SecondaryPairs(close) :
                   define_high_low_close_period_fn(fn_name, hl[1], hl[2], close, None)
        \/ \E period \in Periods :
               define_high_low_close_period_fn(fn_name, FullLen, FullLen, FullLen, period)

CallHighLowClose ==
    \E fn_name \in DOMAIN HighLowCloseFns, close \in PrimaryLens :
        \E hl \in SecondaryPairs(close) :
            define_high_low_close_fn(fn_name, hl[1], hl[2], close)

CallValuesPeriod ==
    \E fn_name \in DOMAIN ValuesPeriodFns :
        \/ \E input \in PrimaryLens : define_values_period_fn(fn_name, input, None)
        \/ \E period \in Periods : define_values_period_fn(fn_name, FullLen, period)

CallBollingerBands ==
    \/ \E input \in PrimaryLens : bollinger_bands(input, None, None, None, None)
    \/ \E period \in Periods : bollinger_bands(FullLen, period, None, None, None)
    \/ \E up \in Deviations, down \in Deviations :
           bollinger_bands(FullLen, None, up, down, None)
    \/ \E ma \in MovingAverageArgs : bollinger_bands(FullLen, None, None, None, ma)

CallOnBalanceVolume ==
    \E close \in PrimaryLens :
        \E volume \in SecondaryLens(close) :
            on_balance_volume(close, volume)

\* the observer of Spec remembers nothing
Forget == prev' = prev /\ UNCHANGED bvars

Next ==
    \/ CallHighLowClosePeriod /\ Forget
    \/ CallHighLowClose /\ Forget
    \/ CallValuesPeriod /\ Forget
    \/ CallBollingerBands /\ Forget
    \/ CallOnBalanceVolume /\ Forget

Spec == Init /\ [][Next]_<<vars, bvars>>

(***************************************************************************)
(* The same wrappers under an observer that compares calls: before a call  *)
(* it may remember the call that has just returned, or keep the one it     *)
(* remembers, noting whether a different call was made since.              *)
(***************************************************************************)
\* the calls the observer may remember
Sampled(c) ==
    /\ c.fn = "simple_moving_average"
    /\ c.input = 1
    /\ ~c.period.some

Remember ==
    /\ UNCHANGED bvars
    /\ prev' \in {IF prev.call.fn = "none" THEN prev
                  ELSE [prev EXCEPT !.gap = prev.gap \/ call # prev.call]}
                 \cup (IF Sampled(call) /\ ta_call # NotCalled
                       THEN {[call |-> call, ta_call |-> ta_call, ta_out |-> ta_out,
                              result |-> result, gap |-> FALSE]}
                       ELSE {})

NextObserved ==
    \/ CallHighLowClosePeriod /\ Remember
    \/ CallHighLowClose /\ Remember
    \/ CallValuesPeriod /\ Remember
    \/ CallBollingerBands /\ Remember
    \/ CallOnBalanceVolume /\ Remember

SpecObserved == Init /\ [][NextObserved]_<<vars, bvars>>

(***************************************************************************)
(* The build of the two crates: the generator visits the declarations of   *)
(* the headers, and the compiler resolves the references of the wrapper    *)
(* crate against bindings.rs.  No wrapper runs meanwhile.                  *)
(***************************************************************************)
\* the generator visits a function, a variable or a type
GenerateItem ==
    \E decl \in HeaderFunctions \cup HeaderVars \cup HeaderTypes :
        /\ bindgen_item' = decl
        /\ bindgen_out' = RustPath(decl)
        /\ UNCHANGED <<reference, resolved>>
        /\ UNCHANGED vars

\* the generator visits a variant of an enum
GenerateEnumVariant ==
    \E decl \in HeaderVariants :
        /\ bindgen_item' = decl
        /\ bindgen_out' = RustPath(decl)
        /\ UNCHANGED <<reference, resolved>>
        /\ UNCHANGED vars

\* the compiler resolves a reference of an expansion of one of the macros
CompileMacroReference ==
    \E r \in MacroReferences :
        /\ reference' = r
        /\ resolved' = (r.path \in Bindings)
        /\ UNCHANGED <<bindgen_item, bindgen_out>>
        /\ UNCHANGED vars

\* the compiler resolves a reference of lib.rs
CompileLibReference ==
    \E r \in LibReferences :
        /\ reference' = r
        /\ resolved' = (r.path \in Bindings)
        /\ UNCHANGED <<bindgen_item, bindgen_out>>
        /\ UNCHANGED vars

NextBindings ==
    \/ GenerateItem
    \/ GenerateEnumVariant
    \/ CompileMacroReference
    \/ CompileLibReference

SpecBindings == Init /\ [][NextBindings]_<<vars, bvars>>

(***************************************************************************)
(* Properties                                                              *)
(***************************************************************************)
\* the wrapper reached the C function
Called == ta_call # NotCalled

\* the length of the primary input of a call: close, or input
PrimaryLen(c) == IF "close" \in DOMAIN c THEN c.close ELSE c.input

\* the words of an error message
Words(msg) == {msg[i] : i \in DOMAIN msg}

\* C1: whenever the assertions pass, the wrapper returns Ok exactly when the
\* library returned SUCCESS; for any other status code it returns Err, the
\* message contains that status code, and the Err carries no output values.
StatusCodeDecidesResult ==
    result.kind \in {"Ok", "Err"} =>
        /\ Called
        /\ (result.kind = "Ok") <=> (ta_out.retCode = RetCode.SUCCESS)
        /\ result.kind = "Err" =>
              /\ DebugFmt(ta_out.retCode) \in Words(result.msg)
              /\ DOMAIN result = {"kind", "msg"}

\* a status code other than SUCCESS, with the cells written, came back as Err
StatusCodeDecidesResultWitness ==
    /\ result.kind = "Err"
    /\ ta_out.retCode = RetCode.ALLOC_ERR
    /\ ta_out.wrote

\* C2: on success every returned list has exactly the count the library
\* reported as its length, and the begin index is the offset the library
\* reported; the three lists of bollinger_bands have the same length.
OkCarriesCountAndOffset ==
    result.kind = "Ok" =>
        /\ \A i \in DOMAIN result.values : Len(result.values[i]) = ta_out.outNBElement
        /\ result.begin = ta_out.outBegIdx
        /\ call.fn = "bollinger_bands" => Len(result.values) = 3

\* bollinger_bands succeeded with fewer values than inputs and a positive offset
OkCarriesCountAndOffsetWitness ==
    /\ result.kind = "Ok"
    /\ call.fn = "bollinger_bands"
    /\ ta_out.outNBElement > 0
    /\ ta_out.outNBElement < PrimaryLen(call)
    /\ ta_out.outBegIdx > 0

\* C3: every output buffer handed to the library has the capacity of the
\* primary input's length, and the length set on it never exceeds its capacity.
OutputWithinCapacity ==
    Called =>
        /\ Len(out) = Len(ta_call.outCap)
        /\ \A i \in DOMAIN out :
              /\ ta_call.outCap[i] = PrimaryLen(call)
              /\ out[i].cap = ta_call.outCap[i]
              /\ out[i].len <= out[i].cap

\* the library filled a buffer up to its capacity, and the wrapper returned it
OutputWithinCapacityWitness ==
    /\ result.kind = "Ok"
    /\ out[1].len = out[1].cap
    /\ out[1].cap = PrimaryLen(call)

\* C4: the library receives the default sentinel exactly when the caller passed
\* None, and for every Some(p) the period it receives is p.
PeriodReachesLibraryUnchanged ==
    (Called /\ "period" \in DOMAIN call) =>
        /\ (ta_call.optInTimePeriod = TA_INTEGER_DEFAULT) <=> ~call.period.some
        /\ call.period.some => ta_call.optInTimePeriod = call.period.v

\* C5: the library is called with start index 0 and end index len - 1 of the
\* primary input, so that positions at or beyond len are outside the range.
WholeSeriesRequested ==
    Called =>
        /\ ta_call.startIdx = 0
        /\ ta_call.endIdx = PrimaryLen(call) - 1
        /\ \A pos \in PrimaryLen(call)..UsizeMax : pos > ta_call.endIdx

\* the arguments of a call that an assertion of the wrapper rejects
Rejected(c) ==
    \/ PrimaryLen(c) = 0
    \/ "high" \in DOMAIN c /\ c.high < c.close
    \/ "low" \in DOMAIN c /\ c.low < c.close
    \/ "volume" \in DOMAIN c /\ c.volume < c.close

\* C6: a call with an empty primary input or a too short high, low or volume
\* panics without calling the library; whenever the library is called the end
\* index is >= 0 and every input array holds at least end index + 1 elements.
AssertionsGuardLibrary ==
    call.fn # "none" =>
        /\ Rejected(call) => (result.kind = "Panic" /\ ~Called)
        /\ Called =>
              /\ ta_call.endIdx >= 0
              /\ \A i \in DOMAIN ta_call.inputs : ta_call.inputs[i] >= ta_call.endIdx + 1

\* C7: the two cells are read only after SUCCESS, every returned element was
\* written by the library during the call, and on the error path the length of
\* the output buffers stays 0.
NoUninitializedObserved ==
    /\ reads # {} =>
          /\ ta_out.retCode = RetCode.SUCCESS
          /\ out_begin.init
          /\ out_size.init
    /\ result.kind = "Ok" =>
          \A i \in DOMAIN result.values :
              \A j \in DOMAIN result.values[i] : result.values[i][j] = "lib"
    /\ result.kind = "Err" => \A i \in DOMAIN out : out[i].len = 0

\* a success that leaves slots of the buffer unwritten and does not return them
NoUninitializedObservedWitness ==
    /\ result.kind = "Ok"
    /\ Len(result.values[1]) > 0
    /\ \E j \in DOMAIN out[1].data : out[1].data[j] = "uninit"

\* the moving average of the C library that each variant stands for
SameMovingAverage ==
    [SimpleMovingAverage            |-> "MAType_SMA",
     ExponentialMovingAverage       |-> "MAType_EMA",
     WeightedMovingAverage          |-> "MAType_WMA",
     DoubleExponentialMovingAverage |-> "MAType_DEMA",
     TripleExponentialMovingAverage |-> "MAType_TEMA",
     TriangularMovingAverage        |-> "MAType_TRIMA",
     KaufmanAdaptiveMovingAverage   |-> "MAType_KAMA",
     MesaAdaptiveMovingAverage      |-> "MAType_MAMA",
     TripleGeneralizedDoubleExponentialMovingAverage |-> "MAType_T3"]

\* C8: bollinger_bands passes the C enum code of the moving average the caller
\* chose, no two choices are passed as the same code, and None is passed as the
\* exponential moving average.
MovingAverageCodePassed ==
    (Called /\ call.fn = "bollinger_bands") =>
        /\ call.moving_average_type.some =>
              /\ ta_call.optInMAType = SameMovingAverage[call.moving_average_type.v]
              /\ \A other \in MovingAverageTypes \ {call.moving_average_type.v} :
                    MATypeArg(Some(other)) # ta_call.optInMAType
        /\ ~call.moving_average_type.some => ta_call.optInMAType = "MAType_EMA"

\* bollinger_bands was called with a moving average other than the default one
MovingAverageCodePassedWitness ==
    /\ Called
    /\ call.fn = "bollinger_bands"
    /\ call.moving_average_type.some
    /\ call.moving_average_type.v = "DoubleExponentialMovingAverage"
    /\ result.kind = "Ok"

\* C9: two calls with equal arguments and equal library outcomes hand the same
\* arguments to the library and return equal results, whatever was called
\* before and between them.
EqualCallsEqualResults ==
    (prev.call = call /\ prev.ta_out = ta_out) =>
        (prev.ta_call = ta_call /\ prev.result = result)

\* a remembered call was repeated after a different call, and returned Ok
EqualCallsEqualResultsWitness ==
    /\ prev.call = call
    /\ prev.ta_out = ta_out
    /\ prev.gap
    /\ result.kind = "Ok"

\* the names of the indicators
IndicatorNames ==
    {HighLowClosePeriodFns[f] : f \in DOMAIN HighLowClosePeriodFns}
    \cup {HighLowCloseFns[f] : f \in DOMAIN HighLowCloseFns}
    \cup {ValuesPeriodFns[f] : f \in DOMAIN ValuesPeriodFns}
    \cup {"BBANDS", "OBV"}

\* C10: an Err message names no indicator other than the one that was called.
ErrNamesOnlyCalledIndicator ==
    result.kind = "Err" =>
        \A w \in Words(result.msg) : w \in IndicatorNames => w = ta_call.name

\* C11: every path of the raw bindings crate that the wrapper refers to, in
\* lib.rs and in the three macros, is one the generator emits under its
\* renaming rule.
ReferencesResolve == reference # NoReference => resolved

====
